---- MODULE Spec2Model ----
(***************************************************************************)
(* A model of src/store.py: class Store (an in-memory inventory ledger)    *)
(* and the pure helpers slice_monotonic_sequence, find_between_dates and   *)
(* generate_statistics.                                                    *)
(*                                                                         *)
(* Python values are modelled as follows.                                  *)
(*   - An Item is the record [cls, name, price]; the only place that       *)
(*     creates Items is add_item, on a name that is not yet a key of       *)
(*     _items, so object identity coincides with the name.                 *)
(*   - A dict is a function over its keys; a list is a sequence.  Python   *)
(*     indexes from 0 and TLA+ from 1: seq[i] of the source is seq[i + 1]. *)
(*   - The outcome of a call is the record [err, val]: err is "none" and   *)
(*     val the returned value, or err names the exception that escaped.    *)
(*   - datetime values are integers; datetime.now() reads the variable     *)
(*     now, a clock that never runs backwards.                             *)
(***************************************************************************)
EXTENDS Integers, Sequences, FiniteSets, TLC

\* ---- bounds of the model ----
MaxRecords == 2      \* stock and sales records a run appends in total
MaxTime == 2         \* the clock reads 1..MaxTime
MaxCount == 1        \* count arguments range over -1..MaxCount
MaxPosCount == 2     \* and over 1..MaxPosCount where only positive ones are passed
MaxPrice == 2        \* price arguments range over 1..MaxPrice
MaxLen == 3          \* length of the sequences handed to the slicer alone
MaxKey == 3          \* characteristics of those sequences range over 1..MaxKey

StrNames == {"widget", "ghost"}      \* name arguments that are str
NonStrNames == {"7"}                 \* a name argument that is not a str (the int 7)
ArgNames == StrNames \cup NonStrNames
Counts == -1 .. MaxCount
PosCounts == 1 .. MaxPosCount
Prices == 1 .. MaxPrice
Times == 1 .. MaxTime
MinDate == 0                         \* datetime(1, 1, 1)
MaxDate == MaxTime + 1               \* datetime(9999, 12, 31, 23, 59, 59)
Dates == MinDate .. MaxDate
Keys == 1 .. MaxKey
Bounds == 0 .. (MaxKey + 1)

VARIABLES
  draft,            \* which side of the conflict in stock() is built
  now,              \* the value datetime.now() returns
  _total,           \* Store._total
  _items,           \* Store._items: name -> Item
  _statistics,      \* Store._statistics: Item -> Statistic
  _stock_records,   \* Store._stock_records
  _sales_records,   \* Store._sales_records
  last,             \* the last call made on the Store and its outcome
  sl                \* a stand-alone call of one of the pure helpers

vars == <<draft, now, _total, _items, _statistics, _stock_records,
          _sales_records, last, sl>>
store == <<_total, _items, _statistics, _stock_records, _sales_records>>

Return(v) == [err |-> "none", val |-> v]
Raise(e) == [err |-> e, val |-> <<>>]

isinstance_str(name) == name \in StrNames

\* ---- classes ----
Item(name, price) == [cls |-> "Item", name |-> name, price |-> price]
ItemRecord(item, count, date) == [item |-> item, count |-> count, date |-> date]
Statistic(item, count) == [item |-> item, count |-> count]

\* Python's  a * n  for the operands the program multiplies: n is an int;
\* class Item defines neither __mul__ nor __rmul__.
PyMul(a, n) ==
  IF a.cls = "Item" THEN Raise("TypeError") ELSE Return(a.v * n)

\* property Statistic.total
Statistic_total(self) == PyMul(self.item, self.count)

\* ---- slice_monotonic_sequence ----
cmpr(strict, x, y) == IF strict THEN x < y ELSE x <= y

RECURSIVE bisect(_, _, _, _, _)
bisect(chars, needle, strict, start, end) ==
  IF start + 1 >= end THEN start
  ELSE LET mid == (start + end) \div 2
       IN IF cmpr(strict, chars[mid + 1], needle)
          THEN bisect(chars, needle, strict, mid, end)
          ELSE bisect(chars, needle, strict, start, mid)

\* characteristic is the name of the field it selects: lambda x: x.date is "date"
slice_monotonic_sequence(seq, lower, upper, characteristic) ==
  LET n == Len(seq)
      chars == [i \in 1 .. n |-> seq[i][characteristic]]
  IN IF n = 0 THEN Raise("IndexError")          \* seq[len(seq) - 1] on []
     ELSE IF chars[n] < lower THEN Return(<<>>)
     ELSE IF chars[1] >= upper THEN Return(<<>>)
     ELSE LET l0 == bisect(chars, lower, TRUE, 0, n)
              llower == IF chars[l0 + 1] < lower THEN l0 + 1 ELSE l0
              u0 == bisect(chars, upper, FALSE, 0, n)
              uupper == IF chars[u0 + 1] <= upper THEN u0 + 1 ELSE u0
          IN Return(SubSeq(seq, llower + 1, uupper))

find_between_dates(records_seq, begin, end) ==
  slice_monotonic_sequence(records_seq, begin, end, "date")

\* ---- generate_statistics ----
\* the loop of generate_statistics with  res[i].count = rec.count
RECURSIVE generate_statistics_assign(_, _)
generate_statistics_assign(records, res) ==
  IF records = <<>> THEN res
  ELSE LET rec == Head(records)
           i == rec.item
           res1 == IF i \in DOMAIN res THEN res ELSE (i :> Statistic(i, 0)) @@ res
           res2 == [res1 EXCEPT ![i].count = rec.count]
       IN generate_statistics_assign(Tail(records), res2)

RECURSIVE generate_statistics_loop(_, _)
generate_statistics_loop(records, res) ==
  IF records = <<>> THEN res
  ELSE LET rec == Head(records)
           i == rec.item
           res1 == IF i \in DOMAIN res THEN res ELSE (i :> Statistic(i, 0)) @@ res
           res2 == [res1 EXCEPT ![i].count = @ + rec.count]
       IN generate_statistics_loop(Tail(records), res2)

generate_statistics(records) == generate_statistics_loop(records, <<>>)

\* ---- Store ----
\* new_statistic and update_statistic, as the dict they leave behind
\* new_statistic that starts the dict over:  self._statistics = {item: ...}
new_statistic_clear(stats, item) == (item :> Statistic(item, 0))
new_statistic(stats, item) == (item :> Statistic(item, 0)) @@ stats
\* update_statistic with  count = dcount  for  count += dcount
update_statistic_assign(stats, item, dcount) == [stats EXCEPT ![item].count = dcount]
update_statistic(stats, item, dcount) == [stats EXCEPT ![item].count = @ + dcount]

\* add_item that builds the statistic anew for a name it already knows
add_item_renew(name, price) ==
  IF ~isinstance_str(name)
  THEN [err |-> "TypeError", item |-> <<>>, items |-> _items, stats |-> _statistics]
  ELSE IF name \in DOMAIN _items /\ _items[name].price # price
  THEN [err |-> "PriceMismatchError", item |-> <<>>,
        items |-> _items, stats |-> _statistics]
  ELSE LET i == IF name \in DOMAIN _items THEN _items[name] ELSE Item(name, price)
       IN [err |-> "none", item |-> i,
           items |-> (name :> i) @@ _items, stats |-> new_statistic(_statistics, i)]

\* add_item that registers the name before it compares the prices
add_item_early(name, price) ==
  IF ~isinstance_str(name)
  THEN [err |-> "TypeError", item |-> <<>>, items |-> _items, stats |-> _statistics]
  ELSE LET i == Item(name, price)
           items1 == (name :> i) @@ _items
           stats1 == new_statistic(_statistics, i)
       IN IF name \in DOMAIN _items /\ _items[name].price # price
          THEN [err |-> "PriceMismatchError", item |-> <<>>,
                items |-> items1, stats |-> stats1]
          ELSE IF name \in DOMAIN _items
          THEN [err |-> "none", item |-> _items[name],
                items |-> _items, stats |-> _statistics]
          ELSE [err |-> "none", item |-> i, items |-> items1, stats |-> stats1]

\* add_item that takes the new price of a name it knows, as a new Item
add_item_reprice(name, price) ==
  IF ~isinstance_str(name)
  THEN [err |-> "TypeError", item |-> <<>>, items |-> _items, stats |-> _statistics]
  ELSE IF name \in DOMAIN _items /\ _items[name].price = price
  THEN [err |-> "none", item |-> _items[name],
        items |-> _items, stats |-> _statistics]
  ELSE LET i == Item(name, price)
       IN [err |-> "none", item |-> i,
           items |-> (name :> i) @@ _items, stats |-> new_statistic(_statistics, i)]

\* add_item: the outcome, and the registry and statistics it leaves behind
add_item(name, price) ==
  IF ~isinstance_str(name)
  THEN [err |-> "TypeError", item |-> <<>>, items |-> _items, stats |-> _statistics]
  ELSE IF name \in DOMAIN _items
  THEN IF _items[name].price # price
       THEN [err |-> "PriceMismatchError", item |-> <<>>,
             items |-> _items, stats |-> _statistics]
       ELSE [err |-> "none", item |-> _items[name],
             items |-> _items, stats |-> _statistics]
  ELSE LET i == Item(name, price)
       IN [err |-> "none", item |-> i,
           items |-> (name :> i) @@ _items, stats |-> new_statistic(_statistics, i)]

\* find_item without the except clause: the KeyError escapes
find_item_keyerror(name) ==
  IF ~isinstance_str(name)
  THEN [err |-> "TypeError", item |-> <<>>, items |-> _items, stats |-> _statistics]
  ELSE IF name \notin DOMAIN _items
  THEN [err |-> "KeyError", item |-> <<>>, items |-> _items, stats |-> _statistics]
  ELSE [err |-> "none", item |-> _items[name], items |-> _items, stats |-> _statistics]

find_item(name) ==
  IF ~isinstance_str(name)
  THEN [err |-> "TypeError", item |-> <<>>, items |-> _items, stats |-> _statistics]
  ELSE IF name \notin DOMAIN _items
  THEN [err |-> "ItemUnknownError", item |-> <<>>, items |-> _items, stats |-> _statistics]
  ELSE [err |-> "none", item |-> _items[name], items |-> _items, stats |-> _statistics]

Room == Len(_stock_records) + Len(_sales_records) < MaxRecords

\* stock() that puts the new record at the head of the log
stock_tail_prepend(r, call, count) ==
  IF r.err # "none"
  THEN /\ last' = [call EXCEPT !.err = r.err]
       /\ _items' = r.items
       /\ _statistics' = r.stats
       /\ UNCHANGED <<_total, _stock_records, _sales_records>>
  ELSE /\ Room
       /\ _items' = r.items
       /\ _stock_records' = <<ItemRecord(r.item, count, now)>> \o _stock_records
       /\ _statistics' = update_statistic(r.stats, r.item, count)
       /\ last' = [call EXCEPT !.err = "none"]
       /\ UNCHANGED <<_total, _sales_records>>

\* stock() once add_item or find_item has answered r: the exception goes on
\* to the caller with whatever the lookup left behind, or else the record is
\* appended and the statistic updated
stock_tail(r, call, count) ==
  IF r.err # "none"
  THEN /\ last' = [call EXCEPT !.err = r.err]
       /\ _items' = r.items
       /\ _statistics' = r.stats
       /\ UNCHANGED <<_total, _stock_records, _sales_records>>
  ELSE /\ Room
       /\ _items' = r.items
       /\ _stock_records' = Append(_stock_records, ItemRecord(r.item, count, now))
       /\ _statistics' = update_statistic(r.stats, r.item, count)
       /\ last' = [call EXCEPT !.err = "none"]
       /\ UNCHANGED <<_total, _sales_records>>

\* stock(name, count, price)
Stock(name, count, price) ==
  /\ stock_tail(add_item(name, price),
                [op |-> "stock", name |-> name, count |-> count, price |-> price,
                 priced |-> TRUE, err |-> "none"], count)
  /\ UNCHANGED <<draft, now, sl>>

\* stock(name, count) without the test of price == None: the default None goes
\* to add_item as the price (written 0 here, a value no item is priced at)
StockNoPrice_add_item(name, count) ==
  /\ LET call == [op |-> "stock", name |-> name, count |-> count, price |-> 0,
                  priced |-> FALSE, err |-> "none"]
     IN IF draft = "upstream"
        THEN /\ last' = [call EXCEPT !.err = "TypeError"]
             /\ UNCHANGED store
        ELSE stock_tail(add_item(name, 0), call, count)
  /\ UNCHANGED <<draft, now, sl>>

\* stock(name, count): the price argument is left out
StockNoPrice(name, count) ==
  /\ LET call == [op |-> "stock", name |-> name, count |-> count, price |-> 0,
                  priced |-> FALSE, err |-> "none"]
     IN IF draft = "upstream"
        THEN \* def stock(self, name, count, price): a positional is missing
             /\ last' = [call EXCEPT !.err = "TypeError"]
             /\ UNCHANGED store
        ELSE stock_tail(find_item(name), call, count)
  /\ UNCHANGED <<draft, now, sl>>

\* the test of sell() with <= for <, and with its operands swapped
out_of_stock_le(onhand, count) == onhand <= count
out_of_stock_swapped(onhand, count) == count < onhand

\* the test of sell(): self._statistics[i].count < count
out_of_stock(onhand, count) == onhand < count

\* sell(name, count)
Sell(name, count) ==
  /\ LET r == find_item(name)
         call == [op |-> "sell", name |-> name, count |-> count, price |-> 0,
                  priced |-> FALSE, err |-> "none"]
     IN IF r.err # "none"
        THEN /\ last' = [call EXCEPT !.err = r.err]
             /\ UNCHANGED store
        ELSE IF out_of_stock(_statistics[r.item].count, count)
        THEN /\ last' = [call EXCEPT !.err = "OutOfStockError"]
             /\ UNCHANGED store
        ELSE /\ Room
             /\ _sales_records' = Append(_sales_records, ItemRecord(r.item, count, now))
             /\ _statistics' = update_statistic(_statistics, r.item, -count)
             /\ last' = call
             /\ UNCHANGED <<_total, _items, _stock_records>>
  /\ UNCHANGED <<draft, now, sl>>

\* time passes between two calls: the next datetime.now() reads a later value
Tick ==
  /\ now < MaxTime
  /\ now' = now + 1
  /\ UNCHANGED <<draft, store, last, sl>>

\* total()
total == _total

TotalOp ==
  /\ last' = [op |-> "total", err |-> "none", val |-> total]
  /\ UNCHANGED <<draft, now, store, sl>>

\* statistic(names) for names None
statistic_all == Return({_statistics[i] : i \in DOMAIN _statistics})

\* statistic(names) for names one value that is not None and not iterable,
\* or a str
statistic(name) ==
  IF isinstance_str(name)
  THEN LET r == find_item(name)
       IN IF r.err # "none" THEN Raise(r.err) ELSE Return(_statistics[r.item])
  ELSE Raise("TypeError")

StatisticAll ==
  /\ last' = [op |-> "statistic_all", err |-> "none", val |-> statistic_all.val]
  /\ UNCHANGED <<draft, now, store, sl>>

StatisticOne(name) ==
  /\ LET r == statistic(name)
     IN last' = [op |-> "statistic", name |-> name, err |-> r.err, val |-> r.val]
  /\ UNCHANGED <<draft, now, store, sl>>

stock_history_over_period(begin, end) == find_between_dates(_stock_records, begin, end)
sales_history_over_period(begin, end) == find_between_dates(_sales_records, begin, end)

stock_statistics_over_period(begin, end) ==
  LET h == stock_history_over_period(begin, end)
  IN IF h.err # "none" THEN h ELSE Return(generate_statistics(h.val))

sales_statistics_over_period(begin, end) ==
  LET h == sales_history_over_period(begin, end)
  IN IF h.err # "none" THEN h ELSE Return(generate_statistics(h.val))

\* a call of one of the four queries over a period, and its outcome
answer(op, begin, end, r) ==
  [op |-> op, begin |-> begin, end |-> end, err |-> r.err, val |-> r.val]

StockHistory(begin, end) ==
  /\ last' = answer("stock_history", begin, end,
                    stock_history_over_period(begin, end))
  /\ UNCHANGED <<draft, now, store, sl>>

SalesHistory(begin, end) ==
  /\ last' = answer("sales_history", begin, end,
                    sales_history_over_period(begin, end))
  /\ UNCHANGED <<draft, now, store, sl>>

StockStatistics(begin, end) ==
  /\ last' = answer("stock_statistics", begin, end,
                    stock_statistics_over_period(begin, end))
  /\ UNCHANGED <<draft, now, store, sl>>

SalesStatistics(begin, end) ==
  /\ last' = answer("sales_statistics", begin, end,
                    sales_statistics_over_period(begin, end))
  /\ UNCHANGED <<draft, now, store, sl>>

\* ---- the stand-alone slicer ----
SortedSeqs ==
  UNION { { s \in [1 .. n -> Keys] : \A i \in 1 .. n - 1 : s[i] <= s[i + 1] }
          : n \in 0 .. MaxLen }

\* the elements carry their position, so that equal keys stay distinguishable
Elems(s) == [i \in 1 .. Len(s) |-> [key |-> s[i], pos |-> i]]

SlIdle == [pc |-> "idle"]

Slice ==
  /\ sl.pc = "call"
  /\ LET r == slice_monotonic_sequence(sl.seq, sl.lower, sl.upper, "key")
     IN sl' = [sl EXCEPT !.pc = "done", !.err = r.err, !.out = r.val]
  /\ UNCHANGED <<draft, now, store, last>>

\* ---- specifications ----
StoreInit ==
  /\ draft \in {"upstream", "stashed"}
  /\ now = 1
  /\ _total = 0
  /\ _items = <<>>
  /\ _statistics = <<>>
  /\ _stock_records = <<>>
  /\ _sales_records = <<>>
  /\ last = [op |-> "init", err |-> "none"]

Init == StoreInit /\ sl = SlIdle

StoreNext(C) ==
  \/ Tick
  \/ \E name \in ArgNames, count \in C, price \in Prices : Stock(name, count, price)
  \/ \E name \in ArgNames, count \in C : StockNoPrice(name, count)
  \/ \E name \in ArgNames, count \in C : Sell(name, count)
  \/ TotalOp
  \/ StatisticAll
  \/ \E name \in ArgNames : StatisticOne(name)

QueryNext ==
  \/ \E begin \in Dates, end \in Dates : StockHistory(begin, end)
  \/ \E begin \in Dates, end \in Dates : SalesHistory(begin, end)
  \/ \E begin \in Dates, end \in Dates : StockStatistics(begin, end)
  \/ \E begin \in Dates, end \in Dates : SalesStatistics(begin, end)

\* the Store driven with every count, zero and negative ones included
Next == StoreNext(Counts)
Spec == Init /\ [][Next]_vars

\* the Store driven with positive counts only, and queried over periods
NextPos == StoreNext(PosCounts) \/ QueryNext
SpecPos == Init /\ [][NextPos]_vars

\* slice_monotonic_sequence alone, on every sorted sequence within the bounds
SliceInit ==
  /\ StoreInit
  /\ draft = "upstream"
  /\ \E s \in SortedSeqs, lower \in Bounds, upper \in Bounds :
       sl = [pc |-> "call", seq |-> Elems(s), lower |-> lower, upper |-> upper,
             err |-> "none", out |-> <<>>]

SliceNext == Slice
SpecSlice == SliceInit /\ [][SliceNext]_vars

\* generate_statistics alone, on every sequence of records within the bounds,
\* next to a fresh Store and next to one that holds a stock record
SomeItems == {Item("widget", 1), Item("ghost", 2)}
SomeRecords == {ItemRecord(i, c, 1) : i \in SomeItems, c \in Counts}
RecordSeqs == UNION {[1 .. n -> SomeRecords] : n \in 0 .. MaxLen}

Generate ==
  /\ sl.pc = "generate"
  /\ sl' = [sl EXCEPT !.pc = "generated", !.out = generate_statistics(sl.records)]
  /\ UNCHANGED <<draft, now, store, last>>

StatsInit ==
  /\ draft = "upstream"
  /\ now = 1
  /\ _total = 0
  /\ last = [op |-> "init", err |-> "none"]
  /\ _sales_records = <<>>
  /\ \/ /\ _items = <<>>
        /\ _statistics = <<>>
        /\ _stock_records = <<>>
     \/ LET i == Item("widget", 1)
        IN /\ _items = ("widget" :> i)
           /\ _statistics = (i :> Statistic(i, 1))
           /\ _stock_records = <<ItemRecord(i, 1, 1)>>
  /\ \E records \in RecordSeqs : sl = [pc |-> "generate", records |-> records, out |-> <<>>]

StatsNext == Generate
SpecStats == StatsInit /\ [][StatsNext]_vars

\* the loop of bisect alone, one pass of  while True  per step, on every
\* sequence of characteristics within the bounds, sorted or not
AllSeqs == UNION {[1 .. n -> Keys] : n \in 0 .. MaxLen}

\* mid taken at the low end
bisect_mid_low(start, end) == start

\* mid = int((start + end) / 2)
bisect_mid(start, end) == (start + end) \div 2

BisectStep ==
  /\ sl.pc = "bisect"
  /\ IF sl.start + 1 >= sl.end
     THEN sl' = [sl EXCEPT !.pc = "returned", !.ret = sl.start]
     ELSE LET mid == bisect_mid(sl.start, sl.end)
          IN IF cmpr(sl.strict, sl.chars[mid + 1], sl.needle)
             THEN sl' = [sl EXCEPT !.start = mid, !.reads = @ \cup {mid}]
             ELSE sl' = [sl EXCEPT !.end = mid, !.reads = @ \cup {mid}]
  /\ UNCHANGED <<draft, now, store, last>>

BisectInit ==
  /\ StoreInit
  /\ draft = "upstream"
  /\ \E chars \in AllSeqs, needle \in Bounds, strict \in BOOLEAN :
       sl = [pc |-> "bisect", chars |-> chars, needle |-> needle, strict |-> strict,
             start |-> 0, end |-> Len(chars), reads |-> {}, ret |-> 0]

BisectNext == BisectStep
SpecBisect == BisectInit /\ [][BisectNext]_vars /\ WF_vars(BisectNext)

\* ---- vocabulary of the properties ----
IsStockCall ==
  \/ \E name \in ArgNames, count \in Counts, price \in Prices : Stock(name, count, price)
  \/ \E name \in ArgNames, count \in Counts : StockNoPrice(name, count)
IsSellCall == \E name \in ArgNames, count \in Counts : Sell(name, count)

\* the on-hand count of a registered name, in the registry items and cache stats
on_hand(items, stats, name) == stats[items[name]].count

RECURSIVE sum_counts(_)
sum_counts(records) ==
  IF records = <<>> THEN 0 ELSE Head(records).count + sum_counts(Tail(records))

records_of(log, item) == SelectSeq(log, LAMBDA r : r.item = item)

\* the sum over the items of S of count * price
RECURSIVE inventory_value(_)
inventory_value(S) ==
  IF S = {} THEN 0
  ELSE LET i == CHOOSE x \in S : TRUE
       IN _statistics[i].count * i.price + inventory_value(S \ {i})

registered == { _items[n] : n \in DOMAIN _items }

in_period(e, lower, upper) == lower <= e /\ e < upper

is_prefix(a, b) == Len(a) <= Len(b) /\ SubSeq(b, 1, Len(a)) = a
by_date(log) == \A k \in 1 .. Len(log) - 1 : log[k].date <= log[k + 1].date

\* ---- C1 ----
\* C1: after any sequence of stock and sell calls, total() equals the sum over
\* the registered items of on-hand count * price.
C1_TotalIsInventoryValue == total = inventory_value(registered)

\* ---- C2 ----
\* C2: on a non-empty sorted sequence, slice_monotonic_sequence returns exactly
\* the elements e with lower <= characteristic(e) < upper, in their order.
C2_SliceIsHalfOpen ==
  (sl.pc = "done" /\ sl.seq # <<>>) =>
     /\ sl.err = "none"
     /\ sl.out = SelectSeq(sl.seq, LAMBDA e : in_period(e.key, sl.lower, sl.upper))

\* ---- C3 ----
\* C3: for every registered item, reading the total of its Statistic succeeds
\* and yields count * price.
C3_StatisticTotal ==
  \A i \in registered :
     /\ Statistic_total(_statistics[i]).err = "none"
     /\ Statistic_total(_statistics[i]).val = _statistics[i].count * i.price

\* ---- C4 ----
\* C4: for a registered item, sell(name, count) fails with OutOfStock exactly
\* when the on-hand count is less than count; on that failure the on-hand count
\* and the sales log are unchanged; otherwise it appends exactly one
\* SalesRecord and lowers the on-hand count by exactly count.
C4_SellGuard ==
  [][\A name \in DOMAIN _items, count \in Counts :
       Sell(name, count) =>
         LET onhand == on_hand(_items, _statistics, name)
             onhand1 == on_hand(_items', _statistics', name)
         IN /\ (last'.err = "OutOfStockError") <=> (onhand < count)
            /\ (last'.err = "OutOfStockError") =>
                  (onhand1 = onhand /\ _sales_records' = _sales_records)
            /\ (last'.err # "OutOfStockError") =>
                  /\ last'.err = "none"
                  /\ _sales_records' =
                       Append(_sales_records, ItemRecord(_items[name], count, now))
                  /\ onhand1 = onhand - count]_vars

\* a sale of exactly the on-hand count went through
C4_Witness ==
  /\ last.op = "sell" /\ last.err = "none" /\ last.count > 0
  /\ on_hand(_items, _statistics, last.name) = 0
  /\ sum_counts(records_of(_stock_records, _items[last.name])) = last.count

\* ---- C5 ----
\* C5: stock(name, count, price) on a registered name with the same price
\* succeeds and adds count to the on-hand count, the statistic is not reset and
\* no second item is made; with another price it fails with PriceMismatch and
\* leaves the on-hand count unchanged.
C5_Restock ==
  [][\A name \in DOMAIN _items, count \in Counts, price \in Prices :
       Stock(name, count, price) =>
         LET onhand == on_hand(_items, _statistics, name)
             onhand1 == on_hand(_items', _statistics', name)
         IN IF _items[name].price = price
            THEN /\ last'.err = "none"
                 /\ onhand1 = onhand + count
                 /\ _items' = _items
                 /\ DOMAIN _statistics' = DOMAIN _statistics
            ELSE /\ last'.err = "PriceMismatchError"
                 /\ onhand1 = onhand
                 /\ _items' = _items]_vars

\* a name was stocked a second time at its price, on top of a positive count
C5_Witness ==
  /\ last.op = "stock" /\ last.priced /\ last.err = "none"
  /\ Len(records_of(_stock_records, _items[last.name])) = 2
  /\ on_hand(_items, _statistics, last.name) = 2
  /\ Cardinality(DOMAIN _statistics) = 1

\* ---- C6 ----
\* C6: in any reachable state, for a name that was never registered,
\* sell(name, count) and statistic(name) fail with ItemUnknown and the name
\* stays unregistered.
C6_UnknownItem ==
  [][\A name \in StrNames \ DOMAIN _items :
       ((\E count \in Counts : Sell(name, count)) \/ StatisticOne(name)) =>
          /\ last'.err = "ItemUnknownError"
          /\ name \notin DOMAIN _items']_vars

\* a sale of an unknown name was refused by a Store that knows another name
C6_Witness ==
  /\ last.op = "sell" /\ last.err = "ItemUnknownError"
  /\ last.name \notin DOMAIN _items
  /\ _items # <<>>

\* ---- C7 ----
\* C7: a stock or sell call that fails leaves the registry, every statistic,
\* both logs and the grand total as they were before the call.
C7_FailureLeavesStore ==
  [][((IsStockCall \/ IsSellCall) /\ last'.err # "none") => UNCHANGED store]_vars

\* a stock call was refused for its price by a Store that holds records
C7_Witness ==
  /\ last.op = "stock" /\ last.err = "PriceMismatchError"
  /\ _stock_records # <<>>

\* ---- C8 ----
\* C8: after stock and sell calls with positive counts, the on-hand count of
\* every registered item is >= 0.
C8_NoNegativeCount == \A i \in registered : _statistics[i].count >= 0

\* an item was sold out
C8_Witness ==
  /\ last.op = "sell" /\ last.err = "none"
  /\ _sales_records # <<>>
  /\ \E i \in registered : _statistics[i].count = 0

\* ---- C9 ----
\* C9: the records a history query returns are in non-decreasing timestamp
\* order and each record r satisfies begin <= r.date < end.
C9_HistoryInPeriod ==
  (last.op \in {"stock_history", "sales_history"} /\ last.err = "none") =>
     /\ \A k \in 1 .. Len(last.val) - 1 : last.val[k].date <= last.val[k + 1].date
     /\ \A k \in 1 .. Len(last.val) : in_period(last.val[k].date, last.begin, last.end)

C11_EmptySequence ==
  (sl.pc = "done" /\ sl.seq = <<>>) => (sl.err = "none" /\ sl.out = <<>>)

\* ---- C12 ----
\* C12: on a sorted sequence, slice_monotonic_sequence with lower = upper
\* returns an empty result, also when elements have exactly that
\* characteristic.
C12_EmptyInterval ==
  (sl.pc = "done" /\ sl.seq # <<>> /\ sl.lower = sl.upper) =>
     (sl.err = "none" /\ sl.out = <<>>)

\* ---- C13 ----
\* C13: once a name is registered with price p, after any further stock or
\* sell call, successful or failing, the name is still registered and its
\* price is still p.
C13_RegistryIsPermanent ==
  [][\A name \in DOMAIN _items :
       /\ name \in DOMAIN _items'
       /\ _items'[name].price = _items[name].price]_vars

\* a registered name went through a refused stock at another price
C13_Witness ==
  /\ last.op = "stock" /\ last.err = "PriceMismatchError"
  /\ last.name \in DOMAIN _items
  /\ _items[last.name].price # last.price
  /\ Len(_stock_records) + Len(_sales_records) = 2

\* ---- C14 ----
\* C14: for every registered item, the live statistic count equals the sum of
\* the counts of the item's stock records minus the sum of the counts of its
\* sales records.
C14_CountIsLedgerBalance ==
  \A i \in registered :
     _statistics[i].count =
        sum_counts(records_of(_stock_records, i))
          - sum_counts(records_of(_sales_records, i))

\* an item was stocked and then sold in part or in whole
C14_Witness ==
  \E i \in registered :
     /\ records_of(_stock_records, i) # <<>>
     /\ records_of(_sales_records, i) # <<>>
     /\ sum_counts(records_of(_sales_records, i)) > 0

\* ---- C15 ----
\* C15: both logs are append-only: across any step each log's old content is a
\* prefix of its new content; a successful stock appends exactly one record to
\* the stock log and leaves the sales log unchanged, a successful sell does
\* the same the other way round; each log stays in non-decreasing timestamp
\* order.
C15_LogsAppendOnly ==
  [][/\ is_prefix(_stock_records, _stock_records')
     /\ is_prefix(_sales_records, _sales_records')
     /\ (IsStockCall /\ last'.err = "none") =>
           /\ Len(_stock_records') = Len(_stock_records) + 1
           /\ _sales_records' = _sales_records
     /\ (IsSellCall /\ last'.err = "none") =>
           /\ Len(_sales_records') = Len(_sales_records) + 1
           /\ _stock_records' = _stock_records
     /\ by_date(_stock_records')
     /\ by_date(_sales_records')]_vars

\* a log holds two records stamped at different times
C15_Witness ==
  /\ Len(_stock_records) = 2
  /\ _stock_records[1].date < _stock_records[2].date

\* ---- C16 ----
\* C16: every item referenced by a record of either log or by an entry of the
\* statistics cache is the item registered under its name, and the cache has
\* exactly one entry per registered item.
C16_ItemsAreRegistered ==
  /\ \A k \in 1 .. Len(_stock_records) :
        /\ _stock_records[k].item.name \in DOMAIN _items
        /\ _items[_stock_records[k].item.name] = _stock_records[k].item
  /\ \A k \in 1 .. Len(_sales_records) :
        /\ _sales_records[k].item.name \in DOMAIN _items
        /\ _items[_sales_records[k].item.name] = _sales_records[k].item
  /\ DOMAIN _statistics = registered
  /\ \A i \in DOMAIN _statistics : _statistics[i].item = i
  /\ Cardinality(DOMAIN _statistics) = Cardinality(DOMAIN _items)

\* two items are registered, each with a record in the stock log
C16_Witness ==
  /\ Cardinality(DOMAIN _items) = 2
  /\ Cardinality(DOMAIN _statistics) = 2
  /\ \A i \in registered : records_of(_stock_records, i) # <<>>

\* ---- C17 ----
\* C17: generate_statistics applied to a sequence of records returns a mapping
\* whose keys are exactly the items that occur in the records and whose count
\* for each item is the sum of the counts of the item's records, whatever the
\* Store's live statistics cache holds, and it leaves the Store as it was.
C17_GenerateStatistics ==
  [][Generate =>
       /\ DOMAIN sl'.out = {sl.records[k].item : k \in 1 .. Len(sl.records)}
       /\ \A i \in DOMAIN sl'.out :
             /\ sl'.out[i].item = i
             /\ sl'.out[i].count = sum_counts(records_of(sl.records, i))
       /\ UNCHANGED store]_vars

\* three records of two items were summed next to a live cache that holds
\* another count for one of them
C17_Witness ==
  /\ sl.pc = "generated"
  /\ Len(sl.records) = 3
  /\ Cardinality(DOMAIN sl.out) = 2
  /\ \E i \in DOMAIN sl.out \cap DOMAIN _statistics :
        sl.out[i].count # _statistics[i].count

\* ---- C18 ----
\* C18: every record of the stock log and of the sales log has a strictly
\* positive count, also after calls whose count argument is zero or negative.
C18_RecordCountsPositive ==
  /\ \A k \in 1 .. Len(_stock_records) : _stock_records[k].count > 0
  /\ \A k \in 1 .. Len(_sales_records) : _sales_records[k].count > 0

\* ---- C19 ----
\* C19: in the optional-price draft, stock(name, count) without a price fails
\* with ItemUnknown on an unregistered name and then registers nothing and
\* appends nothing; on a registered name it does not fail with PriceMismatch
\* and adds count to the on-hand count.
C19_StockWithoutPrice ==
  [][\A name \in StrNames, count \in Counts :
       (draft = "stashed" /\ StockNoPrice(name, count)) =>
          IF name \notin DOMAIN _items
          THEN last'.err = "ItemUnknownError" /\ UNCHANGED store
          ELSE /\ last'.err = "none"
               /\ _items' = _items
               /\ on_hand(_items', _statistics', name)
                    = on_hand(_items, _statistics, name) + count
               /\ Len(_stock_records') = Len(_stock_records) + 1]_vars

\* a registered item was restocked without a price
C19_Witness ==
  /\ draft = "stashed"
  /\ last.op = "stock" /\ ~last.priced /\ last.err = "none"
  /\ Len(records_of(_stock_records, _items[last.name])) = 2

\* ---- C20 ----
\* C20: the loop of bisect terminates for every sequence length, 0 and 1
\* included, and every needle; it only reads indices strictly between 0 and
\* len(seq); on a sorted non-empty sequence it returns the position of the last
\* element whose characteristic compares true to the needle, or 0 when no
\* element does.
C20_Bisect ==
  /\ [](\A k \in sl.reads : 0 < k /\ k < Len(sl.chars))
  /\ []((sl.pc = "returned" /\ sl.chars # <<>> /\ sl.chars \in SortedSeqs) =>
          LET hits == {k \in 0 .. Len(sl.chars) - 1 :
                         cmpr(sl.strict, sl.chars[k + 1], sl.needle)}
          IN /\ sl.ret = IF hits = {} THEN 0
                         ELSE CHOOSE k \in hits : \A j \in hits : j <= k
             /\ sl.ret = bisect(sl.chars, sl.needle, sl.strict, 0, Len(sl.chars)))
  /\ <>(sl.pc = "returned")

\* the loop returned a position past the middle after reading two indices
C20_Witness ==
  /\ sl.pc = "returned"
  /\ Len(sl.chars) = 3
  /\ Cardinality(sl.reads) = 2
  /\ sl.ret = 2

====
